---------------------------- MODULE Spec2Model ----------------------------
(***************************************************************************)
(* A model of app.py, the certificate web application of sportWeb: the     *)
(* login / logout / index / process_activity routes over one Flask        *)
(* session, the Garmin and Strava scrapers with their time conversions,    *)
(* and the worksheet functions get_user_data and update_user_log under     *)
(* gsheet_lock.                                                            *)
(*                                                                         *)
(* Python strings are sequences of one-character strings, so that strip,   *)
(* upper, split, int() and the f-string formats are computed and not       *)
(* assumed.                                                                *)
(***************************************************************************)
EXTENDS Integers, Sequences, FiniteSets, TLC

VARIABLES
    sheet,              \* the 'users' worksheet: rows of cells, row 1 the headers
    gspread_available,  \* GSPREAD_AVAILABLE, fixed at import time
    session,            \* the Flask session of the one browser: a dict
    request,            \* the request handled last
    response,           \* the response to it
    effects,            \* what that request did: fetch, sheet_read, sheet_write, pdf
    login_row,          \* history: the worksheet row the last successful login matched
    clock,              \* datetime.now(), a logical clock
    lock,               \* gsheet_lock: 0 when free, else the thread holding it
    thr,                \* per thread: position and locals inside the worksheet functions
    conv                \* one run of the time conversion of get_garmin_data

vars == <<sheet, gspread_available, session, request, response, effects,
          login_row, clock, lock, thr, conv>>

-----------------------------------------------------------------------------
(* Characters and Python string primitives *)

Digits == <<"0", "1", "2", "3", "4", "5", "6", "7", "8", "9">>

Lowercase == <<"a", "b", "c", "d", "e", "f", "g", "h", "i", "j", "k", "l", "m",
               "n", "o", "p", "q", "r", "s", "t", "u", "v", "w", "x", "y", "z">>

Uppercase == <<"A", "B", "C", "D", "E", "F", "G", "H", "I", "J", "K", "L", "M",
               "N", "O", "P", "Q", "R", "S", "T", "U", "V", "W", "X", "Y", "Z">>

IsDigit(c) == \E i \in 1..Len(Digits) : Digits[i] = c

DigitVal(c) == (CHOOSE i \in 1..Len(Digits) : Digits[i] = c) - 1

\* str.upper() on one character
UpperChar(c) ==
    IF \E i \in 1..Len(Lowercase) : Lowercase[i] = c
    THEN Uppercase[CHOOSE i \in 1..Len(Lowercase) : Lowercase[i] = c]
    ELSE c

\* str.upper()
Upper(s) == [i \in 1..Len(s) |-> UpperChar(s[i])]

RECURSIVE LStrip(_)
LStrip(s) == IF s # <<>> /\ Head(s) = " " THEN LStrip(Tail(s)) ELSE s

RECURSIVE RStrip(_)
RStrip(s) ==
    IF s # <<>> /\ s[Len(s)] = " " THEN RStrip(SubSeq(s, 1, Len(s) - 1)) ELSE s

\* str.strip()
Strip(s) == RStrip(LStrip(s))

\* c in s
Contains(s, c) == \E i \in 1..Len(s) : s[i] = c

\* s.split(c) for a one-character separator: ''.split(c) is ['']
RECURSIVE Split(_, _)
Split(s, c) ==
    IF s = <<>> THEN << <<>> >>
    ELSE LET rest == Split(Tail(s), c)
         IN  IF Head(s) = c
             THEN << <<>> >> \o rest
             ELSE << <<Head(s)>> \o rest[1] >> \o Tail(rest)

\* whether int(s) returns (surrounding blanks are accepted) or raises ValueError
IntParses(s) ==
    /\ Strip(s) # <<>>
    /\ \A i \in 1..Len(Strip(s)) : IsDigit(Strip(s)[i])

RECURSIVE DigitsValue(_)
DigitsValue(s) ==
    IF s = <<>> THEN 0
    ELSE 10 * DigitsValue(SubSeq(s, 1, Len(s) - 1)) + DigitVal(s[Len(s)])

\* int(s), where it parses
IntOf(s) == DigitsValue(Strip(s))

\* str(n) for n >= 0
RECURSIVE IntToStr(_)
IntToStr(n) ==
    IF n < 10 THEN <<Digits[n + 1]>>
    ELSE IntToStr(n \div 10) \o <<Digits[(n % 10) + 1]>>

\* f"{n:02}": at least two digits, zero filled
Format02(n) == IF n < 10 THEN <<"0">> \o IntToStr(n) ELSE IntToStr(n)

-----------------------------------------------------------------------------
(* Time helpers of app.py *)

SecondsPerDay == 86400

\* seconds_to_hms(seconds), for an integer
seconds_to_hms(seconds) ==
    LET hours     == seconds \div 3600
        remainder == seconds % 3600
    IN  Format02(hours) \o <<":">> \o Format02(remainder \div 60)
            \o <<":">> \o Format02(remainder % 60)

\* The Strava branch of hms_to_seconds: '1h 23m 45s'.  [ok, val]; ok is FALSE
\* where an int() raises ValueError.
HmsUnits(t) ==
    LET hasH == Contains(t, "h")
        hStr == Split(t, "h")[1]
        t1   == IF hasH THEN Strip(Split(t, "h")[2]) ELSE t
        hasM == Contains(t1, "m")
        mStr == Split(t1, "m")[1]
        t2   == IF hasM THEN Strip(Split(t1, "m")[2]) ELSE t1
        hasS == Contains(t2, "s")
        sStr == Split(t2, "s")[1]
        ok   == /\ hasH => IntParses(hStr)
                /\ hasM => IntParses(mStr)
                /\ hasS => IntParses(sStr)
    IN  IF ok
        THEN [ok |-> TRUE,
              val |-> (IF hasH THEN IntOf(hStr) ELSE 0) * 3600
                      + (IF hasM THEN IntOf(mStr) ELSE 0) * 60
                      + (IF hasS THEN IntOf(sStr) ELSE 0)]
        ELSE [ok |-> FALSE, val |-> 0]

\* The Garmin branch of hms_to_seconds: 'hh:mm:ss' or 'mm:ss'; any other
\* number of parts falls through to return 0.
HmsColons(t) ==
    LET parts == Split(t, ":")
    IN  IF \E i \in 1..Len(parts) : ~IntParses(parts[i])
        THEN [ok |-> FALSE, val |-> 0]
        ELSE IF Len(parts) = 3
        THEN [ok |-> TRUE,
              val |-> IntOf(parts[1]) * 3600 + IntOf(parts[2]) * 60 + IntOf(parts[3])]
        ELSE IF Len(parts) = 2
        THEN [ok |-> TRUE, val |-> IntOf(parts[1]) * 60 + IntOf(parts[2])]
        ELSE [ok |-> TRUE, val |-> 0]

\* hms_to_seconds(t) for a string t
hms_to_seconds(t) ==
    IF Contains(t, "h") \/ Contains(t, "m") \/ Contains(t, "s") THEN HmsUnits(t)
    ELSE IF Contains(t, ":") THEN HmsColons(t)
    ELSE [ok |-> TRUE, val |-> 0]

\* calculate_pace(distance_km, total_seconds) with the distance in hundredths
\* of a kilometre: <<minutes, seconds>> of the pace per kilometre
calculate_pace(distance_100, total_seconds) ==
    IF distance_100 = 0 \/ total_seconds = 0 THEN <<0, 0>>
    ELSE LET pace_seconds_per_km == (total_seconds * 100) \div distance_100
         IN  <<pace_seconds_per_km \div 60, pace_seconds_per_km % 60>>

\* timedelta(seconds = total_seconds).seconds: the days are normalised away
TimedeltaSeconds(total_seconds) == total_seconds % SecondsPerDay

\* formatted_time of get_garmin_data
GarminFormattedTime(total_seconds) ==
    LET td_seconds == TimedeltaSeconds(total_seconds)
        hours      == td_seconds \div 3600
        remainder  == td_seconds % 3600
    IN  Format02(hours) \o <<":">> \o Format02(remainder \div 60)
            \o <<":">> \o Format02(remainder % 60)

-----------------------------------------------------------------------------
(* The scrapers.  A page is what requests.get and BeautifulSoup make of the   *)
(* URL: whether the fetch succeeded, what the selectors and regular           *)
(* expressions found.  Distances are held in hundredths of a kilometre.       *)

\* The key 0 of activities[0]; the keys of the scrapers' dicts are strings.
KeyZero == "0 (int)"

ErrorDict == [error |-> "message"]

\* get_garmin_data(url), given the page the URL serves
get_garmin_data(page) ==
    IF ~page.http_ok THEN ErrorDict                    \* raise_for_status, caught
    ELSE IF ~page.has_meta THEN ErrorDict
    ELSE IF ~(page.dist_match /\ page.time_match /\ page.elev_match) THEN ErrorDict
    ELSE IF ~page.numbers_ok THEN ErrorDict            \* float() raises, caught
    ELSE LET parsed == hms_to_seconds(page.time_str)
         IN  IF ~parsed.ok THEN ErrorDict              \* ValueError, caught
             ELSE [distance       |-> page.distance_100,
                   time           |-> GarminFormattedTime(parsed.val),
                   elevation_gain |-> page.elevation,
                   avg_pace       |-> calculate_pace(page.distance_100, parsed.val),
                   source         |-> "Garmin Connect"]

\* get_strava_data(url), given the page the URL serves
get_strava_data(page) ==
    IF ~page.http_ok THEN ErrorDict
    ELSE IF page.n_stats < 3 THEN ErrorDict
    ELSE IF ~page.numbers_ok THEN ErrorDict            \* float() or int() raises
    ELSE LET parsed == hms_to_seconds(page.time_str)
         IN  IF ~parsed.ok THEN ErrorDict
             ELSE [distance       |-> page.distance_100,
                   time           |-> page.time_str,
                   elevation_gain |-> page.elevation,
                   avg_pace       |-> calculate_pace(page.distance_100, parsed.val),
                   source         |-> "Strava"]

\* The scraper's error result
IsErrorResult(activities) == "error" \in DOMAIN activities

\* bool(activities) for a dict
Truthy(activities) == DOMAIN activities # {}

-----------------------------------------------------------------------------
(* The worksheet.  A sheet is a sequence of rows, row 1 the headers; a row is *)
(* a sequence of cells without trailing empty cells; a cell is a string, as   *)
(* gspread reports it.                                                        *)

Empty == <<>>

H_name        == <<"n", "a", "m", "e">>
H_id_card     == <<"i", "d", "_", "c", "a", "r", "d">>
H_phone       == <<"p", "h", "o", "n", "e">>
H_user_number == <<"u", "s", "e", "r", "_", "n", "u", "m", "b", "e", "r">>
H_last_time   == <<"l", "a", "s", "t", "_", "t", "i", "m", "e">>
H_last_link   == <<"l", "a", "s", "t", "_", "l", "i", "n", "k">>

RECURSIVE TrimTrailing(_)
TrimTrailing(row) ==
    IF row # <<>> /\ row[Len(row)] = Empty
    THEN TrimTrailing(SubSeq(row, 1, Len(row) - 1))
    ELSE row

Cell(sh, r, c) == IF r <= Len(sh) /\ c <= Len(sh[r]) THEN sh[r][c] ELSE Empty

\* worksheet.row_values(r)
row_values(sh, r) == TrimTrailing(sh[r])

\* worksheet.col_values(c)
col_values(sh, c) == TrimTrailing([r \in 1..Len(sh) |-> Cell(sh, r, c)])

\* worksheet.update_cell(r, c, v)
update_cell(sh, r, c, v) ==
    LET old    == sh[r]
        padded == [i \in 1..(IF c > Len(old) THEN c ELSE Len(old)) |->
                      IF i = c THEN v ELSE IF i <= Len(old) THEN old[i] ELSE Empty]
    IN  [sh EXCEPT ![r] = TrimTrailing(padded)]

\* list.index(x) + 1, or 0 where index raises ValueError
IndexOf(list, x) ==
    IF \E i \in 1..Len(list) : list[i] = x
    THEN CHOOSE i \in 1..Len(list) : list[i] = x /\ \A j \in 1..(i - 1) : list[j] # x
    ELSE 0

\* the keys of the records of get_all_records must be unique
HeadersUnique(headers) ==
    \A i, j \in 1..Len(headers) : headers[i] = headers[j] => i = j

\* str(x).strip().upper()
Clean(x) == Upper(Strip(x))

\* lines 223-226: the row of the first cell of column 2 that equals the ID,
\* 0 where there is none
MatchRow(sh, user_id_card) ==
    IndexOf([r \in 1..Len(col_values(sh, 2)) |-> Clean(col_values(sh, 2)[r])],
            Clean(user_id_card))

\* line 233
TimeColIndex(headers) ==
    IF IndexOf(headers, H_last_time) # 0 THEN IndexOf(headers, H_last_time)
    ELSE Len(headers) + 1

\* line 234 without its headers.append
HeadersAfterTimeNoAppend(headers) == headers

\* line 234: headers after the append
HeadersAfterTime(headers) ==
    IF IndexOf(headers, H_last_time) = 0 THEN Append(headers, H_last_time) ELSE headers

\* line 237, on the headers after line 234
LinkColIndex(headers) ==
    IF IndexOf(headers, H_last_link) # 0 THEN IndexOf(headers, H_last_link)
    ELSE Len(headers) + 1

\* datetime.now().strftime(...) at logical time n
TimeStamp(n) == <<"@">> \o IntToStr(n)

\* The worksheet calls of update_user_log after the two reads, in order:
\* <<row, column, value>> for each update_cell; now is the time stamp
PlannedWrites(sh, user_id_card, successful_url, now) ==
    LET match_row == MatchRow(sh, user_id_card)
        headers   == row_values(sh, 1)
        time_col  == TimeColIndex(headers)
        headers2  == HeadersAfterTime(headers)
        link_col  == LinkColIndex(headers2)
    IN  IF match_row = 0 THEN <<>>
        ELSE (IF IndexOf(headers, H_last_time) = 0
              THEN << <<1, time_col, H_last_time>> >> ELSE <<>>)
             \o << <<match_row, time_col, now>> >>
             \o (IF IndexOf(headers2, H_last_link) = 0
                 THEN << <<1, link_col, H_last_link>> >> ELSE <<>>)
             \o << <<match_row, link_col, successful_url>> >>

RECURSIVE ApplyWrites(_, _)
ApplyWrites(sh, writes) ==
    IF writes = <<>> THEN sh
    ELSE ApplyWrites(update_cell(sh, writes[1][1], writes[1][2], writes[1][3]),
                     Tail(writes))

\* update_user_log(user_id_card, successful_url) run alone, from the lock to
\* the release; n_done is the number of update_cell calls that returned
\* before one raised (all of them when none raised)
update_user_log(sh, available, user_id_card, successful_url, now, n_done) ==
    IF ~available THEN sh
    ELSE LET writes == PlannedWrites(sh, user_id_card, successful_url, now)
         IN  ApplyWrites(sh, SubSeq(writes, 1, IF n_done < Len(writes)
                                               THEN n_done ELSE Len(writes)))

-----------------------------------------------------------------------------
(* Reading the table and logging in *)

\* worksheet.get_all_records() and pd.DataFrame(records): the columns are the
\* headers, one row per worksheet row after the first.  [none |-> TRUE] is
\* get_user_data returning None: the call raised, as it also does on a header
\* row that holds a header twice.
get_user_data(sh, available, read_raises) ==
    IF ~available THEN [none |-> TRUE]
    ELSE IF read_raises \/ ~HeadersUnique(row_values(sh, 1)) THEN [none |-> TRUE]
    ELSE IF Len(sh) < 2 THEN [none |-> FALSE, empty |-> TRUE, columns |-> <<>>, rows |-> <<>>]
    ELSE [none    |-> FALSE,
          empty   |-> FALSE,
          columns |-> row_values(sh, 1),
          rows    |-> [i \in 1..(Len(sh) - 1) |->
                          [c \in 1..Len(row_values(sh, 1)) |-> Cell(sh, i + 1, c)]]]

\* lines 323-324
IdCardInput(id_card_form) == Upper(Strip(id_card_form))

PhoneInput(phone_form) == Strip(phone_form)

\* line 337
PhoneInputNoZero(phone_input) ==
    IF phone_input # <<>> /\ Head(phone_input) = "0" THEN Tail(phone_input) ELSE phone_input

\* lines 335-342: whether row i of the frame is selected
RowSelected(df, i, id_card_input, phone_input) ==
    LET df_id_card == Upper(Strip(df.rows[i][IndexOf(df.columns, H_id_card)]))
        df_phone   == Strip(df.rows[i][IndexOf(df.columns, H_phone)])
    IN  /\ df_id_card = id_card_input
        /\ \/ df_phone = phone_input
           \/ df_phone = PhoneInputNoZero(phone_input)

\* user.iloc[0]: the first selected row of the frame, 0 when user.empty
FirstSelected(df, id_card_input, phone_input) ==
    IF \E i \in 1..Len(df.rows) : RowSelected(df, i, id_card_input, phone_input)
    THEN CHOOSE i \in 1..Len(df.rows) :
            /\ RowSelected(df, i, id_card_input, phone_input)
            /\ \A j \in 1..(i - 1) : ~RowSelected(df, j, id_card_input, phone_input)
    ELSE 0

NoSession == <<>>

LoggedIn(sess) == "user_id_card" \in DOMAIN sess

\* lines 346-348: the session after each assignment that ran; user_info[key]
\* raises KeyError where the frame has no such column
SessionSteps(sess, df, i) ==
    LET value(h) == df.rows[i][IndexOf(df.columns, h)]
        s1 == [k \in DOMAIN sess \cup {"user_id_card"} |->
                  IF k = "user_id_card" THEN value(H_id_card) ELSE sess[k]]
        s2 == [k \in DOMAIN s1 \cup {"user_name"} |->
                  IF k = "user_name" THEN value(H_name) ELSE s1[k]]
        s3 == [k \in DOMAIN s2 \cup {"user_number"} |->
                  IF k = "user_number" THEN value(H_user_number) ELSE s2[k]]
    IN  IF IndexOf(df.columns, H_name) = 0 THEN [raised |-> TRUE, session |-> s1]
        ELSE IF IndexOf(df.columns, H_user_number) = 0 THEN [raised |-> TRUE, session |-> s2]
        ELSE [raised |-> FALSE, session |-> s3]

\* login(): the response, the session the request leaves, what it did, and
\* the worksheet row it logged in (0 when it did not).  saved tells
\* whether the server saves the session of a request that ended in an
\* unhandled exception (it does when exceptions are not propagated, and does
\* not under app.run(debug=True)).
LoginResult(sess, sh, available, method, id_form, phone_form, read_raises, saved) ==
    LET df     == get_user_data(sh, available, read_raises)
        i      == FirstSelected(df, IdCardInput(id_form), PhoneInput(phone_form))
        result(resp, s, eff, row) ==
            [response |-> resp, session |-> s, effects |-> eff, row |-> row]
    IN  IF LoggedIn(sess) THEN result("redirect_index", sess, {}, 0)
        ELSE IF ~available THEN result("render_login", sess, {}, 0)
        ELSE IF method # "POST" THEN result("render_login", sess, {}, 0)
        ELSE IF df.none THEN result("render_login", sess, {"sheet_read"}, 0)
        ELSE IF df.empty THEN result("render_login", sess, {"sheet_read"}, 0)
        ELSE IF IndexOf(df.columns, H_id_card) = 0 \/ IndexOf(df.columns, H_phone) = 0
        THEN result("render_login", sess, {"sheet_read"}, 0)
        ELSE IF i = 0 THEN result("render_login", sess, {"sheet_read"}, 0)
        ELSE IF SessionSteps(sess, df, i).raised
        THEN result("error_500",
                    IF saved THEN SessionSteps(sess, df, i).session ELSE sess,
                    {"sheet_read"}, 0)
        ELSE result("redirect_index", SessionSteps(sess, df, i).session,
                    {"sheet_read"}, i + 1)

-----------------------------------------------------------------------------
(* process_activity *)

\* lines 268-271
Scrape(url_type, page) ==
    IF url_type = "garmin" THEN get_garmin_data(page) ELSE get_strava_data(page)

\* process_activity(): the response, what the request did, and the sheet it
\* leaves.  activities[0] raises KeyError on a dict that has no key 0.
ProcessActivityResult(sess, sh, available, url, url_type, page, now, n_done) ==
    LET activities == Scrape(url_type, page)
        result(resp, eff, sh2) == [response |-> resp, effects |-> eff, sheet |-> sh2]
    IN  IF ~LoggedIn(sess) THEN result("redirect_login", {}, sh)
        ELSE IF url = Empty THEN result("redirect_index", {}, sh)
        ELSE IF url_type \notin {"garmin", "strava"} THEN result("redirect_index", {}, sh)
        ELSE IF Truthy(activities)
        THEN IF KeyZero \notin DOMAIN activities
             THEN result("error_500", {"fetch"}, sh)
             ELSE result("pdf",
                         {"fetch", "pdf"} \cup (IF available THEN {"sheet_write"} ELSE {}),
                         update_user_log(sh, available, sess["user_id_card"], url,
                                         TimeStamp(now), n_done))
        ELSE result("redirect_index", {"fetch"}, sh)

-----------------------------------------------------------------------------
(* The tables, forms and pages the model draws from *)

NumUsers == 2

UserRows == 1..NumUsers

IdCells == {<<" ", "a">>, <<"b">>, H_id_card}

PhoneCells == {<<"9", " ">>, <<"0", "9">>}

IdForms == {<<"A", " ">>, <<"b">>, H_id_card}

PhoneForms == {<<"9">>, <<"0", "9">>, <<"0", "0", "9">>}

Urls == {<<"u">>}

OldLink == <<"w">>

OldTime == <<"@", "o", "l", "d">>

HeaderRows ==
    {<<H_name, H_id_card, H_phone, H_user_number>>,
     <<H_name, H_id_card, H_phone, H_user_number, H_last_time, H_last_link>>,
     <<H_name, H_id_card, H_phone, H_user_number, H_last_link>>,
     <<H_id_card, H_name, H_phone, H_user_number>>,
     <<H_name, H_id_card, H_user_number>>,
     <<H_user_number, H_id_card, H_phone>>}

\* the cell of user i under header h
UserCell(h, i, id_card, phone) ==
    IF h = H_id_card THEN id_card
    ELSE IF h = H_phone THEN phone
    ELSE IF h = H_name THEN <<"n">> \o IntToStr(i)
    ELSE IF h = H_user_number THEN <<"#">> \o IntToStr(i)
    ELSE IF h = H_last_time THEN OldTime
    ELSE OldLink

Table(headers, id_cards, phones) ==
    <<headers>> \o [i \in DOMAIN id_cards |->
                      [c \in 1..Len(headers) |-> UserCell(headers[c], i, id_cards[i], phones[i])]]

\* every table of NumUsers users, and the tables with the header row alone
Tables ==
    {Table(h, ids, phones) : h \in HeaderRows, ids \in [UserRows -> IdCells],
                             phones \in [UserRows -> PhoneCells]}
    \cup {<<h>> : h \in HeaderRows}

GarminPage(http_ok, has_meta, matched, time_str) ==
    [http_ok |-> http_ok, has_meta |-> has_meta, dist_match |-> matched,
     time_match |-> matched, elev_match |-> matched, n_stats |-> 0,
     numbers_ok |-> TRUE, distance_100 |-> 607, time_str |-> time_str,
     elevation |-> 7]

StravaPage(http_ok, n_stats, numbers_ok, time_str) ==
    [http_ok |-> http_ok, has_meta |-> FALSE, dist_match |-> FALSE,
     time_match |-> FALSE, elev_match |-> FALSE, n_stats |-> n_stats,
     numbers_ok |-> numbers_ok, distance_100 |-> 1000, time_str |-> time_str,
     elevation |-> 120]

GarminPages ==
    {GarminPage(FALSE, FALSE, FALSE, <<>>),
     GarminPage(TRUE, FALSE, FALSE, <<>>),
     GarminPage(TRUE, TRUE, FALSE, <<>>),
     GarminPage(TRUE, TRUE, TRUE, <<":">>),
     [GarminPage(TRUE, TRUE, TRUE, <<"5", ":", "0", "0">>) EXCEPT !.numbers_ok = FALSE],
     GarminPage(TRUE, TRUE, TRUE, <<"1", ":", "0", "5", ":", "3", "3">>)}

StravaPages ==
    {StravaPage(FALSE, 0, TRUE, <<>>),
     StravaPage(TRUE, 2, TRUE, <<>>),
     StravaPage(TRUE, 3, FALSE, <<"5", "m">>),
     StravaPage(TRUE, 3, TRUE, <<"1", "h", " ", "2", "3", "m", " ", "4", "5", "s">>)}

PagesFor(url_type) ==
    IF url_type = "garmin" THEN GarminPages
    ELSE IF url_type = "strava" THEN StravaPages
    ELSE {GarminPage(FALSE, FALSE, FALSE, <<>>)}

-----------------------------------------------------------------------------
(* Requests on one session *)

MaxClock == 2

\* a GET of the login page, or a POST of the form; the read of the table may raise
LoginForms ==
    {<<"GET", <<>>, <<>>, FALSE>>}
    \cup {<<"POST", i, p, FALSE>> : i \in IdForms, p \in PhoneForms}
    \cup {<<"POST", i, <<"9">>, TRUE>> : i \in IdForms}

NoRequest ==
    [route |-> "none", method |-> "GET", logged_in |-> FALSE, session |-> NoSession,
     id_card |-> <<>>, phone |-> <<>>, read_raises |-> FALSE,
     url |-> <<>>, url_type |-> "none", scraped |-> "none"]

IdleThreads == [t \in {} |-> <<>>]

NoConversion == [pc |-> "off", time_str |-> <<>>, total_seconds |-> 0,
                 formatted_time |-> <<>>, back |-> 0, raised |-> FALSE]

Init ==
    /\ gspread_available \in BOOLEAN
    /\ sheet \in (IF gspread_available THEN Tables ELSE {<<>>})
    /\ session = NoSession
    /\ request = NoRequest
    /\ response = "none"
    /\ effects = {}
    /\ login_row = 0
    /\ clock = 0
    /\ lock = 0
    /\ thr = IdleThreads
    /\ conv = NoConversion

Login ==
    \E form \in LoginForms, saved_on_error \in BOOLEAN :
        LET method       == form[1]
            id_card_form == form[2]
            phone_form   == form[3]
            read_raises  == form[4]
            res == LoginResult(session, sheet, gspread_available, method, id_card_form,
                               phone_form, read_raises, saved_on_error)
        IN  /\ request' = [NoRequest EXCEPT !.route = "login", !.method = method,
                              !.logged_in = LoggedIn(session), !.session = session,
                              !.id_card = id_card_form, !.phone = phone_form,
                              !.read_raises = read_raises]
            /\ session' = res.session
            /\ response' = res.response
            /\ effects' = res.effects
            /\ login_row' = IF res.row # 0 THEN res.row ELSE login_row
            /\ UNCHANGED <<sheet, gspread_available, clock, lock, thr, conv>>

Logout ==
    /\ request' = [NoRequest EXCEPT !.route = "logout", !.logged_in = LoggedIn(session),
                      !.session = session]
    /\ session' = NoSession                              \* session.clear()
    /\ response' = "redirect_login"
    /\ effects' = {}
    /\ login_row' = 0
    /\ UNCHANGED <<sheet, gspread_available, clock, lock, thr, conv>>

Index ==
    /\ request' = [NoRequest EXCEPT !.route = "index", !.logged_in = LoggedIn(session),
                      !.session = session]
    /\ response' = IF LoggedIn(session) THEN "render_index" ELSE "redirect_login"
    /\ effects' = {}
    /\ UNCHANGED <<sheet, gspread_available, session, login_row, clock, lock, thr, conv>>

ProcessActivity ==
    \E url \in Urls \cup {Empty}, url_type \in {"garmin", "strava", "other"} :
      \E page \in PagesFor(url_type), n_done \in {2, 4} :
        LET res == ProcessActivityResult(session, sheet, gspread_available, url,
                                         url_type, page, clock, n_done)
            fetched == "fetch" \in res.effects
        IN  /\ "sheet_write" \in res.effects => clock < MaxClock
            /\ request' = [NoRequest EXCEPT !.route = "process_activity", !.method = "POST",
                              !.logged_in = LoggedIn(session), !.session = session,
                              !.url = url, !.url_type = url_type,
                              !.scraped = IF ~fetched THEN "none"
                                          ELSE IF IsErrorResult(Scrape(url_type, page))
                                          THEN "error" ELSE "ok"]
            /\ response' = res.response
            /\ effects' = res.effects
            /\ sheet' = res.sheet
            /\ clock' = IF "sheet_write" \in res.effects THEN clock + 1 ELSE clock
            /\ UNCHANGED <<gspread_available, session, login_row, lock, thr, conv>>

Next == Login \/ Logout \/ Index \/ ProcessActivity

Spec == Init /\ [][Next]_vars

-----------------------------------------------------------------------------
(* The worksheet functions, called from concurrent request threads.  Every  *)
(* gspread call is one step and may raise.                                  *)

NumThreads == 2

Threads == 1..NumThreads

SheetHeaderRows ==
    {<<H_name, H_id_card, H_phone, H_user_number>>,
     <<H_name, H_id_card, H_phone, H_user_number, H_last_time, H_last_link>>,
     <<H_name, H_id_card, H_phone, H_user_number, H_last_link>>}

SheetTables ==
    {Table(h, ids, [i \in UserRows |-> <<"9">>]) :
        h \in SheetHeaderRows, ids \in [UserRows -> {<<" ", "a">>, <<"b">>}]}

CallIds == {<<"A", " ">>, <<"c">>, H_id_card}

Idle == [pc |-> "idle"]

\* a lock that lets every thread in
LockFreeNoWait(t) == TRUE

\* with gsheet_lock: a thread enters when no thread holds the lock
LockFree(t) == lock = 0

\* the positions at which a thread holds gsheet_lock
InLock ==
    {"ul_col_values", "ul_row_values", "ul_header_time", "ul_write_time",
     "ul_header_link", "ul_write_link", "ul_release", "gd_read", "gd_release"}

\* the positions of update_user_log between the write of last_time and the
\* write of last_link
LinkPending == {"ul_header_link", "ul_write_link"}

SheetInit ==
    /\ gspread_available \in BOOLEAN
    /\ sheet \in (IF gspread_available THEN SheetTables ELSE {<<>>})
    /\ session = NoSession
    /\ request = NoRequest
    /\ response = "none"
    /\ effects = {}
    /\ login_row = 0
    /\ clock = 0
    /\ lock = 0
    /\ thr = [t \in Threads |-> Idle]
    /\ conv = NoConversion

Others == <<gspread_available, session, request, response, effects, login_row, conv>>

\* the except clause of update_user_log: the error is logged, the with block ends
Raised(t) == thr' = [thr EXCEPT ![t].pc = "ul_release", ![t].raised = TRUE]

\* update_user_log(user_id_card, successful_url) is called; line 220
ULCall(t) ==
    \E user_id_card \in CallIds, successful_url \in Urls :
        /\ thr[t].pc = "idle"
        /\ clock < MaxClock
        /\ clock' = clock + 1
        /\ thr' = [thr EXCEPT ![t] =
                IF ~gspread_available THEN Idle
                ELSE [pc |-> "ul_lock", user_id_card |-> user_id_card,
                      successful_url |-> successful_url, match_row |-> 0,
                      headers |-> <<>>, time_col |-> 0, link_col |-> 0,
                      now |-> <<>>, raised |-> FALSE, before |-> <<>>,
                      written |-> <<>>]]
        /\ UNCHANGED <<sheet, lock, Others>>

\* line 221
ULAcquire(t) ==
    /\ thr[t].pc = "ul_lock"
    /\ LockFree(t)
    /\ lock' = t
    /\ thr' = [thr EXCEPT ![t].pc = "ul_col_values", ![t].before = sheet]
    /\ UNCHANGED <<sheet, clock, Others>>

\* lines 223-229
ULColValues(t) ==
    /\ thr[t].pc = "ul_col_values"
    /\ \/ Raised(t)
       \/ thr' = [thr EXCEPT
                    ![t].match_row = MatchRow(sheet, thr[t].user_id_card),
                    ![t].pc = IF MatchRow(sheet, thr[t].user_id_card) = 0
                              THEN "ul_release" ELSE "ul_row_values"]
    /\ UNCHANGED <<sheet, clock, lock, Others>>

\* lines 231-233
ULRowValues(t) ==
    /\ thr[t].pc = "ul_row_values"
    /\ \/ Raised(t)
       \/ thr' = [thr EXCEPT
                    ![t].headers = row_values(sheet, 1),
                    ![t].time_col = TimeColIndex(row_values(sheet, 1)),
                    ![t].pc = IF IndexOf(row_values(sheet, 1), H_last_time) = 0
                              THEN "ul_header_time" ELSE "ul_write_time"]
    /\ UNCHANGED <<sheet, clock, lock, Others>>

\* line 234
ULHeaderTime(t) ==
    /\ thr[t].pc = "ul_header_time"
    /\ \/ Raised(t) /\ UNCHANGED sheet
       \/ /\ sheet' = update_cell(sheet, 1, thr[t].time_col, H_last_time)
          /\ thr' = [thr EXCEPT
                       ![t].headers = HeadersAfterTime(thr[t].headers),
                       ![t].written = Append(@, <<1, thr[t].time_col, H_last_time>>),
                       ![t].pc = "ul_write_time"]
    /\ UNCHANGED <<clock, lock, Others>>

\* lines 235-237
ULWriteTime(t) ==
    /\ thr[t].pc = "ul_write_time"
    /\ \/ Raised(t) /\ UNCHANGED sheet
       \/ /\ sheet' = update_cell(sheet, thr[t].match_row, thr[t].time_col, TimeStamp(clock))
          /\ thr' = [thr EXCEPT
                       ![t].now = TimeStamp(clock),
                       ![t].link_col = LinkColIndex(thr[t].headers),
                       ![t].written = Append(@, <<thr[t].match_row, thr[t].time_col,
                                                  TimeStamp(clock)>>),
                       ![t].pc = IF IndexOf(thr[t].headers, H_last_link) = 0
                                 THEN "ul_header_link" ELSE "ul_write_link"]
    /\ UNCHANGED <<clock, lock, Others>>

\* line 238
ULHeaderLink(t) ==
    /\ thr[t].pc = "ul_header_link"
    /\ \/ Raised(t) /\ UNCHANGED sheet
       \/ /\ sheet' = update_cell(sheet, 1, thr[t].link_col, H_last_link)
          /\ thr' = [thr EXCEPT
                       ![t].written = Append(@, <<1, thr[t].link_col, H_last_link>>),
                       ![t].pc = "ul_write_link"]
    /\ UNCHANGED <<clock, lock, Others>>

\* lines 239-241
ULWriteLink(t) ==
    /\ thr[t].pc = "ul_write_link"
    /\ \/ Raised(t) /\ UNCHANGED sheet
       \/ /\ sheet' = update_cell(sheet, thr[t].match_row, thr[t].link_col,
                                  thr[t].successful_url)
          /\ thr' = [thr EXCEPT
                       ![t].written = Append(@, <<thr[t].match_row, thr[t].link_col,
                                                  thr[t].successful_url>>),
                       ![t].pc = "ul_release"]
    /\ UNCHANGED <<clock, lock, Others>>

\* the end of the with block of update_user_log, on every path out of it
ULRelease(t) ==
    /\ thr[t].pc = "ul_release"
    /\ lock' = 0
    /\ thr' = [thr EXCEPT ![t] = Idle]
    /\ UNCHANGED <<sheet, clock, Others>>

\* get_user_data() is called; line 211
GDCall(t) ==
    /\ thr[t].pc = "idle"
    /\ clock < MaxClock
    /\ clock' = clock + 1
    /\ thr' = [thr EXCEPT ![t] =
            IF ~gspread_available THEN Idle
            ELSE [pc |-> "gd_lock", records |-> [none |-> TRUE], torn |-> FALSE]]
    /\ UNCHANGED <<sheet, lock, Others>>

\* line 213: with gsheet_lock
GDAcquire(t) ==
    /\ thr[t].pc = "gd_lock"
    /\ LockFree(t)
    /\ lock' = t
    /\ thr' = [thr EXCEPT ![t].pc = "gd_read"]
    /\ UNCHANGED <<sheet, clock, Others>>

\* line 213: worksheet.get_all_records(); torn records whether the table read
\* holds a last_time of a call that has yet to write its last_link
GDRead(t) ==
    /\ thr[t].pc = "gd_read"
    /\ \E read_raises \in BOOLEAN :
        thr' = [thr EXCEPT
                  ![t].records = get_user_data(sheet, gspread_available, read_raises),
                  ![t].torn = ~read_raises
                              /\ \E u \in Threads \ {t} : thr[u].pc \in LinkPending,
                  ![t].pc = "gd_release"]
    /\ UNCHANGED <<sheet, clock, lock, Others>>

\* the end of the with block of get_user_data; lines 214-217
GDRelease(t) ==
    /\ thr[t].pc = "gd_release"
    /\ lock' = 0
    /\ thr' = [thr EXCEPT ![t] = Idle]
    /\ UNCHANGED <<sheet, clock, Others>>

SheetNext ==
    \E t \in Threads :
        \/ ULCall(t) \/ ULAcquire(t) \/ ULColValues(t) \/ ULRowValues(t)
        \/ ULHeaderTime(t) \/ ULWriteTime(t) \/ ULHeaderLink(t) \/ ULWriteLink(t)
        \/ ULRelease(t)
        \/ GDCall(t) \/ GDAcquire(t) \/ GDRead(t) \/ GDRelease(t)

SheetSpec == SheetInit /\ [][SheetNext]_vars

-----------------------------------------------------------------------------
(* Claims about the routes, checked under Spec *)

\* the last request was a process_activity, of a session that a completed login
\* created, with a URL and a platform, so that the scraper ran
ScraperRan ==
    /\ request.route = "process_activity"
    /\ request.logged_in
    /\ login_row # 0
    /\ request.url # Empty
    /\ request.url_type \in {"garmin", "strava"}

\* C1: a logged-in process_activity with a URL and a platform whose scraper
\* returns the activity data answers with the PDF certificate, not with a
\* redirect or an unhandled error.
C1_PdfOnScrapeSuccess ==
    (ScraperRan /\ request.scraped = "ok") => response = "pdf"

\* C2: when process_activity scrapes successfully for a logged-in user whose
\* ID is in the worksheet, update_user_log runs before the response, and
\* afterwards the user's row holds a new last_time and last_link = the URL.
C2_LogWrittenOnSuccess ==
    (/\ ScraperRan /\ request.scraped = "ok"
     /\ gspread_available
     /\ MatchRow(sheet, session["user_id_card"]) # 0)
    => LET row     == MatchRow(sheet, session["user_id_card"])
           headers == row_values(sheet, 1)
       IN  /\ "sheet_write" \in effects
           /\ IndexOf(headers, H_last_time) # 0
           /\ IndexOf(headers, H_last_link) # 0
           /\ Cell(sheet, row, IndexOf(headers, H_last_time)) \notin {Empty, OldTime}
           /\ Cell(sheet, row, IndexOf(headers, H_last_link)) = request.url

\* C3: when the scraper returns its error result for a logged-in request,
\* process_activity redirects to index: no PDF, no unhandled exception, and
\* update_user_log is not called.
C3_RedirectOnScrapeError ==
    (ScraperRan /\ request.scraped = "error")
    => /\ response = "redirect_index"
       /\ "pdf" \notin effects
       /\ "sheet_write" \notin effects

\* the rows of the worksheet that C4 calls matching: the id_card cell equals
\* the submitted ID, both trimmed and upper-cased, and the trimmed phone cell
\* equals the submitted phone or the submitted phone less one leading "0"
MatchingRows(sh, id_card_form, phone_form) ==
    LET id_col    == IndexOf(sh[1], H_id_card)
        phone_col == IndexOf(sh[1], H_phone)
    IN  IF id_col = 0 \/ phone_col = 0 THEN {}
        ELSE {r \in 2..Len(sh) :
                /\ Upper(Strip(Cell(sh, r, id_col))) = Upper(Strip(id_card_form))
                /\ \/ Strip(Cell(sh, r, phone_col)) = Strip(phone_form)
                   \/ /\ Strip(phone_form) # <<>>
                      /\ Head(Strip(phone_form)) = "0"
                      /\ Strip(Cell(sh, r, phone_col)) = Tail(Strip(phone_form))}

SessionKeys == {"user_id_card", "user_name", "user_number"}

\* C4: a POST to login on a session that is not logged in sets the three
\* session keys if and only if the readable worksheet has a matching row,
\* with the values of the first such row; otherwise the session stays as it
\* was, not logged in.
C4_LoginSetsSessionIffMatch ==
    (request.route = "login" /\ request.method = "POST" /\ ~request.logged_in)
    => LET rows == IF gspread_available /\ ~request.read_raises
                   THEN MatchingRows(sheet, request.id_card, request.phone) ELSE {}
           first == CHOOSE r \in rows : \A q \in rows : r <= q
           value(h) == Cell(sheet, first, IndexOf(sheet[1], h))
       IN  IF rows = {} THEN session = request.session
           ELSE /\ DOMAIN session = SessionKeys
                /\ session["user_id_card"] = value(H_id_card)
                /\ session["user_name"] = value(H_name)
                /\ session["user_number"] = value(H_user_number)

\* C6: the session holds user_id_card only between a successful login and
\* the next logout; without it index and process_activity redirect to login
\* and fetch, write and render nothing; logout empties the session; a login
\* request of a logged-in session redirects to index, reads no table and
\* leaves the session as it is.
C6_SessionLifecycle ==
    /\ LoggedIn(session) => login_row # 0
    /\ (request.route \in {"index", "process_activity"} /\ ~request.logged_in)
       => (response = "redirect_login" /\ effects = {})
    /\ request.route = "logout" => session = NoSession
    /\ (request.route = "login" /\ request.logged_in)
       => (response = "redirect_index" /\ effects = {} /\ session = request.session)

\* C9: the row update_user_log finds for the session's user_id_card is the
\* row login matched when it created the session.
C9_LogRowIsLoginRow ==
    (LoggedIn(session) /\ login_row # 0)
    => MatchRow(sheet, session["user_id_card"]) = login_row

-----------------------------------------------------------------------------
(* Claims about the worksheet functions, checked under SheetSpec *)

\* update_user_log has come to the end of its with block and still holds the
\* lock: the sheet is what this call made of thr[t].before
AtExit(t) == thr[t].pc = "ul_release"

Count(list, x) == Cardinality({i \in 1..Len(list) : list[i] = x})

\* the first row whose column-2 value equals the ID, both trimmed and
\* upper-cased; 0 when there is none
FirstRowOf(sh, user_id_card) ==
    IF \E r \in 1..Len(sh) : Upper(Strip(Cell(sh, r, 2))) = Upper(Strip(user_id_card))
    THEN CHOOSE r \in 1..Len(sh) :
            /\ Upper(Strip(Cell(sh, r, 2))) = Upper(Strip(user_id_card))
            /\ \A q \in 1..(r - 1) :
                  Upper(Strip(Cell(sh, q, 2))) # Upper(Strip(user_id_card))
    ELSE 0

\* what C5 says of a call that ran from sheet b to sheet a without raising
LogWrittenInPlace(b, a, user_id_card, successful_url, now) ==
    LET row      == FirstRowOf(b, user_id_card)
        old      == row_values(b, 1)
        new      == row_values(a, 1)
        time_col == IndexOf(new, H_last_time)
        link_col == IndexOf(new, H_last_link)
    IN  IF row = 0 THEN a = b
        ELSE /\ Count(new, H_last_time) = 1
             /\ Count(new, H_last_link) = 1
             /\ Cell(a, row, time_col) = now
             /\ Cell(a, row, link_col) = successful_url
             /\ IndexOf(old, H_last_time) # 0 => time_col = IndexOf(old, H_last_time)
             /\ IndexOf(old, H_last_link) # 0 => link_col = IndexOf(old, H_last_link)
             /\ IndexOf(old, H_last_time) = 0 => time_col = Len(old) + 1
             /\ IndexOf(old, H_last_link) = 0
                => link_col = Len(old) + (IF IndexOf(old, H_last_time) = 0 THEN 2 ELSE 1)
             /\ \A c \in 1..Len(old) : new[c] = old[c]
             /\ \A r \in 1..Len(b) : r \notin {1, row} => a[r] = b[r]
             /\ \A c \in 1..Len(a[row]) :
                    c \notin {time_col, link_col} => Cell(a, row, c) = Cell(b, row, c)

\* C5: update_user_log writes the time stamp and the URL only into the first
\* row whose column-2 value equals the ID, under the headers last_time and
\* last_link, appending a missing header after the existing ones, so that
\* row 1 holds each of the two headers exactly once and no other header or
\* row is overwritten; when no row matches nothing is written.
C5_LogWrittenInPlace ==
    \A t \in Threads :
        (AtExit(t) /\ ~thr[t].raised)
        => LogWrittenInPlace(thr[t].before, sheet, thr[t].user_id_card,
                             thr[t].successful_url, thr[t].now)

\* C8: at most one thread is inside the gsheet_lock section of get_user_data
\* or update_user_log, the lock is held exactly there and free after every
\* exit, no interleaving gives row 1 a second last_time or last_link header,
\* and no read of the table sees a last_time whose last_link is pending.
C8_WorksheetMutex ==
    /\ Cardinality({t \in Threads : thr[t].pc \in InLock}) <= 1
    /\ \A t \in Threads : thr[t].pc \in InLock <=> lock = t
    /\ gspread_available
       => /\ Count(row_values(sheet, 1), H_last_time) <= 1
          /\ Count(row_values(sheet, 1), H_last_link) <= 1
    /\ \A t \in Threads : thr[t].pc = "gd_release" => ~thr[t].torn

\* C8 witness: one thread has written last_time into a sheet that had no such
\* header and not yet last_link, while another waits for the lock in
\* get_user_data
C8_Witness ==
    \E t, u \in Threads :
        /\ thr[t].pc \in LinkPending
        /\ thr[u].pc = "gd_lock"
        /\ IndexOf(row_values(thr[t].before, 1), H_last_time) = 0

WroteTime(t) ==
    \E i \in 1..Len(thr[t].written) :
        thr[t].written[i] = <<thr[t].match_row, thr[t].time_col, thr[t].now>>

WroteLink(t) ==
    \E i \in 1..Len(thr[t].written) :
        thr[t].written[i] = <<thr[t].match_row, thr[t].link_col, thr[t].successful_url>>

\* C10: after update_user_log returns, on any path, the row has both
\* last_time and last_link written by this call or is unchanged, and row 1 is
\* not left with a new last_time header and no last_link header.
C10_AllOrNothing ==
    \A t \in Threads :
        AtExit(t)
        => /\ \/ WroteTime(t) /\ WroteLink(t)
              \/ thr[t].written = <<>>
           /\ ~ /\ IndexOf(row_values(thr[t].before, 1), H_last_time) = 0
                /\ IndexOf(row_values(sheet, 1), H_last_time) # 0
                /\ IndexOf(row_values(sheet, 1), H_last_link) = 0

\* C10 as amended: the writes of a call are a prefix of header last_time (if
\* missing), time stamp, header last_link (if missing), URL, and nothing else
\* changes; all of them when no worksheet call raised, and then the row
\* holds this call's time stamp and URL in two columns; a URL is never
\* written without the time stamp.
C10_WritesArePrefix ==
    \A t \in Threads :
        AtExit(t)
        => LET planned == PlannedWrites(thr[t].before, thr[t].user_id_card,
                                        thr[t].successful_url, thr[t].now)
               done    == thr[t].written
           IN  /\ sheet = ApplyWrites(thr[t].before, done)
               /\ Len(done) <= Len(planned)
               /\ \A i \in 1..Len(done) :
                     done[i] = planned[i] \/ (thr[t].now = <<>> /\ done[i][1] = 1)
               /\ WroteLink(t) => WroteTime(t)
               /\ (~thr[t].raised /\ thr[t].match_row # 0)
                  => /\ done = planned
                     /\ thr[t].time_col # thr[t].link_col
                     /\ Cell(sheet, thr[t].match_row, thr[t].time_col) = thr[t].now
                     /\ Cell(sheet, thr[t].match_row, thr[t].link_col)
                            = thr[t].successful_url

\* C10 witness: a call ends on an exception after it wrote the time stamp
\* into a data row and before it wrote the URL
C10_Witness ==
    \E t \in Threads :
        /\ AtExit(t) /\ thr[t].raised
        /\ thr[t].match_row > 1
        /\ WroteTime(t) /\ ~WroteLink(t)
        /\ Cell(sheet, thr[t].match_row, thr[t].time_col) = thr[t].now

-----------------------------------------------------------------------------
(* The time conversion of get_garmin_data, lines 184-197, on the strings    *)
(* that 'Time ([\d:]+)' can match                                           *)

HourParts == {<<"0">>, <<"1">>, <<"0", "1">>, <<"2", "3">>, <<"2", "4">>, <<"2", "5">>,
              <<"4", "8">>}

MinuteParts == {<<"0", "0">>, <<"0", "5">>, <<"5", "9">>}

SecondParts == {<<"0", "0">>, <<"0", "7">>, <<"5", "9">>}

LongMinuteParts == {<<"3", "6">>, <<"7", "5">>, <<"1", "4", "3", "9">>}

TimeStrings ==
    {h \o <<":">> \o m \o <<":">> \o sec :
        h \in HourParts, m \in MinuteParts, sec \in SecondParts}
    \cup {m \o <<":">> \o sec : m \in MinuteParts \cup LongMinuteParts, sec \in SecondParts}
    \cup {<<"3", "6">>, <<":">>, <<"1", ":", "2", ":", "3", ":", "4">>}

TimeInit ==
    /\ gspread_available = FALSE
    /\ sheet = <<>>
    /\ session = NoSession
    /\ request = NoRequest
    /\ response = "none"
    /\ effects = {}
    /\ login_row = 0
    /\ clock = 0
    /\ lock = 0
    /\ thr = IdleThreads
    /\ conv \in {[NoConversion EXCEPT !.pc = "matched", !.time_str = t] : t \in TimeStrings}

NotConv == <<sheet, gspread_available, session, request, response, effects,
             login_row, clock, lock, thr>>

\* line 188; a ValueError goes to the except clause of get_garmin_data
ParseTime ==
    /\ conv.pc = "matched"
    /\ conv' = IF hms_to_seconds(conv.time_str).ok
               THEN [conv EXCEPT !.pc = "parsed",
                                 !.total_seconds = hms_to_seconds(conv.time_str).val]
               ELSE [conv EXCEPT !.pc = "raised", !.raised = TRUE]
    /\ UNCHANGED NotConv

\* lines 194-197
FormatTime ==
    /\ conv.pc = "parsed"
    /\ conv' = [conv EXCEPT !.pc = "returned",
                            !.formatted_time = GarminFormattedTime(conv.total_seconds)]
    /\ UNCHANGED NotConv

\* the returned 'time' is converted back with hms_to_seconds
ReadBack ==
    /\ conv.pc = "returned"
    /\ conv' = [conv EXCEPT !.pc = "read_back",
                            !.back = hms_to_seconds(conv.formatted_time).val]
    /\ UNCHANGED NotConv

TimeNext == ParseTime \/ FormatTime \/ ReadBack

TimeSpec == TimeInit /\ [][TimeNext]_vars

\* the matched string is in mm:ss or h:mm:ss form
ClockForm(t) ==
    /\ Len(Split(t, ":")) \in {2, 3}
    /\ \A i \in 1..Len(Split(t, ":")) : IntParses(Split(t, ":")[i])

\* C7: the 'time' get_garmin_data returns renders the duration it parsed:
\* for every matched string in mm:ss or h:mm:ss form, hms_to_seconds of the
\* returned time is total_seconds, also for 24 hours and more.
C7_TimeRoundTrip ==
    (conv.pc = "read_back" /\ ClockForm(conv.time_str))
    => conv.back = conv.total_seconds

=============================================================================
